---- MODULE Spec2Model ----
(***************************************************************************)
(* A model of score.py, the "Adaptive Holistic University Ranking System". *)
(*                                                                         *)
(* The script is a Streamlit page: a sidebar that selects the global       *)
(* weights, 21 numeric inputs, and a button whose handler computes five    *)
(* factor scores, peer-adjusts them against freshly drawn populations,     *)
(* and aggregates them into a final score.                                 *)
(*                                                                         *)
(* Numbers. Python floats are modelled as exact rationals <<n, d>> in      *)
(* lowest terms with d > 0; every +, -, *, / of the source is the          *)
(* corresponding rational operation, applied in the source's order.        *)
(* IEEE-754 rounding is outside the model.                                 *)
(*                                                                         *)
(* Randomness. np.random.uniform is a nondeterministic choice of a         *)
(* population from a bounded grid inside the requested range.              *)
(***************************************************************************)
EXTENDS Integers, Sequences, FiniteSets, TLC

(***************************************************************************)
(* Exact rational arithmetic (the float operations of the source).         *)
(***************************************************************************)
Abs(n) == IF n < 0 THEN -n ELSE n

RECURSIVE GCD(_, _)
GCD(a, b) == IF b = 0 THEN a ELSE GCD(b, a % b)

\* The rational n/d (d # 0) in lowest terms with a positive denominator.
Q(n, d) ==
    LET g == GCD(Abs(n), Abs(d))
        s == IF d < 0 THEN -1 ELSE 1
    IN  <<(s * n) \div g, (s * d) \div g>>

FromInt(n) == <<n, 1>>

Add(a, b) == Q(a[1] * b[2] + b[1] * a[2], a[2] * b[2])

Sub(a, b) == Q(a[1] * b[2] - b[1] * a[2], a[2] * b[2])

Mul(a, b) == Q(a[1] * b[1], a[2] * b[2])

\* Only applied where the source's divisor is non-zero (the source guards it).
Div(a, b) == Q(a[1] * b[2], a[2] * b[1])

Lt(a, b) == a[1] * b[2] < b[1] * a[2]

Le(a, b) == a[1] * b[2] <= b[1] * a[2]

Gt(a, b) == Lt(b, a)

\* Python's max(a, b) and min(a, b).
Max(a, b) == IF Lt(a, b) THEN b ELSE a

Min(a, b) == IF Lt(b, a) THEN b ELSE a

Zero == FromInt(0)

One == FromInt(1)

Ten == FromInt(10)

\* The sum of a sequence of rationals, left to right from 0 (Python's sum).
RECURSIVE Sum(_)
Sum(s) == IF s = <<>> THEN Zero ELSE Add(Sum(SubSeq(s, 1, Len(s) - 1)), s[Len(s)])

(***************************************************************************)
(* Constants of the script.                                                *)
(***************************************************************************)
MAX_SCORE == 1000

Factors == <<"QTF", "TM", "PS", "CC", "RO">>

FactorSet == {Factors[i] : i \in 1..Len(Factors)}

(***************************************************************************)
(* Bounds of the model.                                                    *)
(***************************************************************************)
\* Arguments of the normalization functions: the halves in [-MaxVal, MaxVal].
MaxVal == 1

\* Longest data series handed to percentile_score on its own.
MaxLen == 3

\* Survey ratings tried: the halves in [0, MaxRating].
MaxRating == 6

Values == {Q(n, 2) : n \in (-2 * MaxVal)..(2 * MaxVal)}

Ratings == {Q(n, 2) : n \in 0..(2 * MaxRating)}

SeqsUpTo(S, n) == UNION {[1..k -> S] : k \in 0..n}

(***************************************************************************)
(* Normalization functions.                                                *)
(***************************************************************************)
\* min_max_scale whose degenerate-range guard returns 10 instead of 0.
min_max_scale_guard10(value, min_val, max_val) ==
    IF max_val = min_val
    THEN Ten
    ELSE Div(Mul(Ten, Sub(value, min_val)), Sub(max_val, min_val))

min_max_scale(value, min_val, max_val) ==
    IF max_val = min_val
    THEN Zero
    ELSE Div(Mul(Ten, Sub(value, min_val)), Sub(max_val, min_val))

\* np.sum(data_series < value) and np.sum(data_series == value)
CountLess(value, data_series) ==
    Cardinality({i \in 1..Len(data_series) : Lt(data_series[i], value)})

CountEqual(value, data_series) ==
    Cardinality({i \in 1..Len(data_series) : data_series[i] = value})

\* percentile_score counting equal elements in full (<= instead of mid-rank).
percentile_score_weak(value, data_series) ==
    IF Len(data_series) = 0
    THEN Zero
    ELSE Mul(Ten, Div(Add(FromInt(CountLess(value, data_series)),
                          FromInt(CountEqual(value, data_series))),
                      FromInt(Len(data_series))))

percentile_score(value, data_series) ==
    IF Len(data_series) = 0
    THEN Zero
    ELSE LET less_than_count == CountLess(value, data_series)
             equal_to_count == CountEqual(value, data_series)
             percentile_rank ==
                 Div(Add(FromInt(less_than_count),
                         Mul(Q(1, 2), FromInt(equal_to_count))),
                     FromInt(Len(data_series)))
         IN  Mul(Ten, percentile_rank)

\* survey_adjust with its result clamped into [0,10].
survey_adjust_clamped(avg_rating) ==
    Max(Zero, Min(Ten, Mul(Q(5, 2), Sub(avg_rating, One))))

survey_adjust(avg_rating) == Mul(Q(5, 2), Sub(avg_rating, One))

(***************************************************************************)
(* State.                                                                  *)
(***************************************************************************)
VARIABLES
    fn,                          \* the normalization function last called, or "none"
    args,                        \* its arguments
    ret,                         \* its return value
    weight_scheme,               \* the sidebar's selectbox
    custom,                      \* the five sidebar sliders (custom_qtf .. custom_ro)
    current_weights,             \* factor -> weight
    warning,                     \* whether st.sidebar.warning was shown by the last run
    calc,                        \* the factor calculator last called, or "none"
    inputs,                      \* its arguments, in order
    dummy_data,                  \* metric -> population read by percentile_score
    score_raw,                   \* the factor score it returned
    sub_scores,                  \* the sub-metric scores it returned, in order
    pc,                          \* "idle", or "done" once the button's handler has run
    raw_factor_scores,           \* factor -> raw score
    dummy_overall_factor_scores, \* factor -> population
    adjusted_factor_scores,      \* factor -> peer-adjusted score
    base_score,
    synergy_bonus,
    penalty,
    final_score_0_10,
    final_score_1000

normVars == <<fn, args, ret>>

sidebarVars == <<weight_scheme, custom, current_weights, warning>>

calcVars == <<calc, inputs, dummy_data, score_raw, sub_scores>>

aggVars == <<pc, raw_factor_scores, dummy_overall_factor_scores,
             adjusted_factor_scores, base_score, synergy_bonus, penalty,
             final_score_0_10, final_score_1000>>

vars == <<normVars, sidebarVars, calcVars, aggVars>>

(***************************************************************************)
(* Sidebar: the global weighting scheme.                                   *)
(***************************************************************************)
Schemes == {"Default", "Research-focused", "Teaching-focused", "Custom"}

\* A row of weights (or of slider values) in the order QTF, TM, PS, CC, RO.
Row(qtf, tm, ps, cc, ro) ==
    [f \in FactorSet |->
        CASE f = "QTF" -> qtf [] f = "TM" -> tm [] f = "PS" -> ps
          [] f = "CC" -> cc [] f = "RO" -> ro]

global_weights_presets ==
    [s \in Schemes \ {"Custom"} |->
        CASE s = "Default" ->
                 Row(Q(25, 100), Q(20, 100), Q(20, 100), Q(15, 100), Q(20, 100))
          [] s = "Research-focused" ->
                 Row(Q(20, 100), Q(15, 100), Q(15, 100), Q(10, 100), Q(30, 100))
          [] s = "Teaching-focused" ->
                 Row(Q(35, 100), Q(30, 100), Q(15, 100), Q(10, 100), Q(10, 100))]

\* The sliders' initial values (the third argument of each st.sidebar.slider).
SliderDefaults == Row(25, 20, 20, 15, 20)

\* The sliders' range is 0..100 in steps of 1; the model moves them in steps
\* of SliderStep up to MaxSlider, and to their defaults.
SliderStep == 20

MaxSlider == 40

SliderValues ==
    {v \in 0..100 : v <= MaxSlider /\ v % SliderStep = 0}
        \cup {SliderDefaults[f] : f \in FactorSet}

total_custom_weight(c) == c["QTF"] + c["TM"] + c["PS"] + c["CC"] + c["RO"]

\* Whether the run shows the renormalization warning.
Warned(scheme, c) == scheme = "Custom" /\ total_custom_weight(c) # 100

\* current_weights as the script's run leaves it.
CurrentWeights(scheme, c) ==
    IF scheme = "Custom"
    THEN IF total_custom_weight(c) # 100
         THEN LET norm_factor ==
                      IF total_custom_weight(c) > 0
                      THEN Div(FromInt(100), FromInt(total_custom_weight(c)))
                      ELSE Zero
              IN  [f \in FactorSet |->
                      Div(Mul(FromInt(c[f]), norm_factor), FromInt(100))]
         ELSE [f \in FactorSet |-> Div(FromInt(c[f]), FromInt(100))]
    ELSE global_weights_presets[scheme]

\* One run of the script's sidebar section with the widgets in the given state.
RunSidebar(scheme, c) ==
    /\ weight_scheme' = scheme
    /\ custom' = c
    /\ current_weights' = CurrentWeights(scheme, c)
    /\ warning' = Warned(scheme, c)

\* The user picks a scheme. The sliders exist only under "Custom": when they
\* are not rendered their state is dropped, and they come back at their
\* defaults.
SelectScheme(s) ==
    /\ s # weight_scheme
    /\ RunSidebar(s, SliderDefaults)
    /\ UNCHANGED <<normVars, calcVars, aggVars>>

\* The user moves one slider.
SetSlider(f, v) ==
    /\ weight_scheme = "Custom"
    /\ v # custom[f]
    /\ RunSidebar("Custom", [custom EXCEPT ![f] = v])
    /\ UNCHANGED <<normVars, calcVars, aggVars>>

(***************************************************************************)
(* Idle values of each group of variables, and the script's first run.     *)
(***************************************************************************)
NormIdle == fn = "none" /\ args = <<>> /\ ret = Zero

SidebarInit ==
    /\ weight_scheme = "Default"
    /\ custom = SliderDefaults
    /\ current_weights = CurrentWeights("Default", SliderDefaults)
    /\ warning = Warned("Default", SliderDefaults)

CalcIdle ==
    /\ calc = "none"
    /\ inputs = <<>>
    /\ dummy_data = <<>>
    /\ score_raw = Zero
    /\ sub_scores = <<>>

AggIdle ==
    /\ pc = "idle"
    /\ raw_factor_scores = <<>>
    /\ dummy_overall_factor_scores = <<>>
    /\ adjusted_factor_scores = <<>>
    /\ base_score = Zero
    /\ synergy_bonus = Zero
    /\ penalty = Zero
    /\ final_score_0_10 = Zero
    /\ final_score_1000 = Zero

\* The page as first served: the sidebar at its defaults, nothing called, the
\* button not yet clicked.
Init == NormIdle /\ SidebarInit /\ CalcIdle /\ AggIdle

(***************************************************************************)
(* Calls of the normalization functions on their own.                      *)
(***************************************************************************)
Call_min_max_scale ==
    /\ fn = "none"
    /\ \E value \in Values, min_val \in Values, max_val \in Values :
           /\ fn' = "min_max_scale"
           /\ args' = <<value, min_val, max_val>>
           /\ ret' = min_max_scale(value, min_val, max_val)
    /\ UNCHANGED <<sidebarVars, calcVars, aggVars>>

Call_percentile_score ==
    /\ fn = "none"
    /\ \E value \in Values, data_series \in SeqsUpTo(Values, MaxLen) :
           /\ fn' = "percentile_score"
           /\ args' = <<value, data_series>>
           /\ ret' = percentile_score(value, data_series)
    /\ UNCHANGED <<sidebarVars, calcVars, aggVars>>

Call_survey_adjust ==
    /\ fn = "none"
    /\ \E avg_rating \in Ratings :
           /\ fn' = "survey_adjust"
           /\ args' = <<avg_rating>>
           /\ ret' = survey_adjust(avg_rating)
    /\ UNCHANGED <<sidebarVars, calcVars, aggVars>>

NextNorm ==
    \/ Call_min_max_scale
    \/ Call_percentile_score
    \/ Call_survey_adjust

\* The normalization functions, each called once on arguments of the grid.
SpecNorm == Init /\ [][NextNorm]_vars

(***************************************************************************)
(* The sidebar on its own.                                                 *)
(***************************************************************************)
NextWeights ==
    \/ \E s \in Schemes : SelectScheme(s)
    \/ \E f \in FactorSet, v \in SliderValues : SetSlider(f, v)

\* The sidebar: any sequence of scheme selections and slider moves.
SpecWeights == Init /\ [][NextWeights]_vars

(***************************************************************************)
(* Reference data of the factor calculators.                               *)
(***************************************************************************)
\* The populations of dummy_data that the calculators read.
Metrics ==
    {"Approachability_feedback_scores", "Placement_Rate", "Alumni_Salary",
     "Research_Output_FWCI"}

\* dummy_data_ranges: metric -> <<min_val, max_val>>
dummy_data_ranges ==
    [m \in Metrics \cup {"Expertise_h_index", "Research_Funding_per_student",
                         "PhD_Conferred", "Funding_Opportunities"} |->
        CASE m = "Expertise_h_index" -> <<FromInt(1), FromInt(50)>>
          [] m = "Approachability_feedback_scores" -> <<FromInt(0), FromInt(10)>>
          [] m = "Placement_Rate" -> <<Q(50, 100), Q(99, 100)>>
          [] m = "Alumni_Salary" -> <<FromInt(50000), FromInt(200000)>>
          [] m = "Research_Output_FWCI" -> <<Q(1, 10), FromInt(5)>>
          [] m = "Research_Funding_per_student" -> <<FromInt(1000), FromInt(50000)>>
          [] m = "PhD_Conferred" -> <<FromInt(10), FromInt(500)>>
          [] m = "Funding_Opportunities" -> <<FromInt(0), FromInt(10000)>>]

\* Size of every drawn population (NUM_DUMMY_UNIVERSITIES, 1000 in the script).
NumDummy == 1

\* np.random.uniform(low, high) draws from [low, high): the model draws from
\* the points low + t * (high - low), t in PopFractions.
PopFractions == {Q(0, 1), Q(1, 2)}

PopGrid(low, high) == {Add(low, Mul(t, Sub(high, low))) : t \in PopFractions}

IsSorted(p) == \A i \in 1..(Len(p) - 1) : Le(p[i], p[i + 1])

\* np.random.uniform(low, high, NumDummy). percentile_score only counts the
\* elements below and equal to a value, so populations are drawn up to order.
Uniform(low, high) == {p \in [1..NumDummy -> PopGrid(low, high)] : IsSorted(p)}

UniformFor(m) == Uniform(dummy_data_ranges[m][1], dummy_data_ranges[m][2])

\* dummy_data with the populations in `drawn` (metric -> population); a
\* population that the modelled call does not read is pinned to its range's
\* lower end.
DummyData(drawn) ==
    [m \in Metrics |->
        IF m \in DOMAIN drawn
        THEN drawn[m]
        ELSE [i \in 1..NumDummy |-> dummy_data_ranges[m][1]]]

(***************************************************************************)
(* The 21 st.number_input widgets, by key: min_value, max_value, value.    *)
(***************************************************************************)
W(lo, hi, v) == [min_value |-> lo, max_value |-> hi, value |-> v]

number_input ==
    [qtf_exp |-> W(FromInt(1), FromInt(50), FromInt(25)),
     qtf_clarity |-> W(FromInt(1), FromInt(5), FromInt(4)),
     qtf_app |-> W(FromInt(0), FromInt(10), FromInt(7)),
     tm_lec |-> W(FromInt(0), FromInt(10), Q(75, 10)),
     tm_disc |-> W(FromInt(0), FromInt(10), FromInt(6)),
     tm_prac |-> W(FromInt(0), FromInt(10), FromInt(8)),
     ps_place |-> W(FromInt(0), FromInt(1), Q(85, 100)),
     ps_emp |-> W(FromInt(1), FromInt(5), Q(38, 10)),
     ps_ind |-> W(FromInt(0), FromInt(100), FromInt(50)),
     ps_alumni |-> W(FromInt(0), FromInt(300000), FromInt(75000)),
     ps_ent |-> W(FromInt(0), FromInt(50), FromInt(5)),
     cc_inc |-> W(FromInt(1), FromInt(5), Q(42, 10)),
     cc_rep |-> W(FromInt(0), FromInt(10), FromInt(7)),
     cc_eng |-> W(FromInt(0), FromInt(10), FromInt(8)),
     cc_ret |-> W(FromInt(0), FromInt(10), Q(75, 10)),
     cc_cult |-> W(FromInt(0), FromInt(10), Q(65, 10)),
     ro_exp |-> W(FromInt(0), FromInt(100000), FromInt(25000)),
     ro_phd |-> W(FromInt(0), FromInt(1000), FromInt(200)),
     ro_fwci |-> W(FromInt(0), FromInt(10), Q(25, 10)),
     ro_lab |-> W(FromInt(1), FromInt(5), Q(45, 10)),
     ro_fund |-> W(FromInt(0), FromInt(20000), FromInt(5000)),
     ro_ment |-> W(FromInt(1), FromInt(5), FromInt(4))]

\* Values the widget accepts (anything in [min_value, max_value]); the model
\* enters the two ends and the widget's initial value.
Accepted(key) ==
    {number_input[key].min_value, number_input[key].value,
     number_input[key].max_value}

(***************************************************************************)
(* Factor calculators. Each returns the factor score and the sub-metric   *)
(* scores in the order of the returned dict; dd is the global dummy_data.  *)
(***************************************************************************)
calculate_qtf(expertise_h_index, clarity_avg_rating, approachability_feedback_score, dd) ==
    LET expertise_score ==
            min_max_scale(expertise_h_index,
                          dummy_data_ranges["Expertise_h_index"][1],
                          dummy_data_ranges["Expertise_h_index"][2])
        clarity_score == survey_adjust(clarity_avg_rating)
        approachability_score ==
            percentile_score(approachability_feedback_score,
                             dd["Approachability_feedback_scores"])
    IN  [score |-> Sum(<<Mul(Q(40, 100), expertise_score),
                         Mul(Q(30, 100), clarity_score),
                         Mul(Q(30, 100), approachability_score)>>),
         subs |-> <<expertise_score, clarity_score, approachability_score>>]

calculate_tm(lecture_effectiveness, discussion_based_pct, practical_sessions_hours) ==
    LET lecture_score == lecture_effectiveness
        discussion_score == discussion_based_pct
        practical_score == practical_sessions_hours
    IN  [score |-> Sum(<<Mul(Q(30, 100), lecture_score),
                         Mul(Q(40, 100), discussion_score),
                         Mul(Q(30, 100), practical_score)>>),
         subs |-> <<lecture_score, discussion_score, practical_score>>]

\* calculate_ps weighting the alumni salary score 0.20 instead of 0.15.
calculate_ps_alumni20(placement_rate, employer_reputation, industry_partnerships, alumni_salary, entrepreneurial_success, dd) ==
    LET placement_score == percentile_score(placement_rate, dd["Placement_Rate"])
        employer_score == survey_adjust(employer_reputation)
        industry_score ==
            min_max_scale(industry_partnerships, FromInt(0), FromInt(100))
        alumni_salary_score == percentile_score(alumni_salary, dd["Alumni_Salary"])
        entrepreneurial_score ==
            min_max_scale(entrepreneurial_success, FromInt(0), FromInt(20))
    IN  [score |-> Sum(<<Mul(Q(30, 100), placement_score),
                         Mul(Q(20, 100), employer_score),
                         Mul(Q(20, 100), industry_score),
                         Mul(Q(20, 100), alumni_salary_score),
                         Mul(Q(15, 100), entrepreneurial_score)>>),
         subs |-> <<placement_score, employer_score, industry_score,
                    alumni_salary_score, entrepreneurial_score>>]

calculate_ps(placement_rate, employer_reputation, industry_partnerships, alumni_salary, entrepreneurial_success, dd) ==
    LET placement_score == percentile_score(placement_rate, dd["Placement_Rate"])
        employer_score == survey_adjust(employer_reputation)
        industry_score ==
            min_max_scale(industry_partnerships, FromInt(0), FromInt(100))
        alumni_salary_score == percentile_score(alumni_salary, dd["Alumni_Salary"])
        entrepreneurial_score ==
            min_max_scale(entrepreneurial_success, FromInt(0), FromInt(20))
    IN  [score |-> Sum(<<Mul(Q(30, 100), placement_score),
                         Mul(Q(20, 100), employer_score),
                         Mul(Q(20, 100), industry_score),
                         Mul(Q(15, 100), alumni_salary_score),
                         Mul(Q(15, 100), entrepreneurial_score)>>),
         subs |-> <<placement_score, employer_score, industry_score,
                    alumni_salary_score, entrepreneurial_score>>]

calculate_cc(inclusion_index, representation_quotient, student_engagement_rate, retention_ratio_diverse_groups, cultural_competency_completion) ==
    LET inclusion_score == survey_adjust(inclusion_index)
        representation_score == representation_quotient
        engagement_score == student_engagement_rate
        retention_score == retention_ratio_diverse_groups
        cultural_score == cultural_competency_completion
    IN  [score |-> Sum(<<Mul(Q(30, 100), inclusion_score),
                         Mul(Q(20, 100), representation_score),
                         Mul(Q(20, 100), engagement_score),
                         Mul(Q(15, 100), retention_score),
                         Mul(Q(15, 100), cultural_score)>>),
         subs |-> <<inclusion_score, representation_score, engagement_score,
                    retention_score, cultural_score>>]

calculate_ro(research_expenditure, phd_attainment, research_output_fwci, lab_accessibility, funding_opportunities, mentorship_programs, dd) ==
    LET research_exp_score ==
            min_max_scale(research_expenditure,
                          dummy_data_ranges["Research_Funding_per_student"][1],
                          dummy_data_ranges["Research_Funding_per_student"][2])
        phd_score ==
            min_max_scale(phd_attainment,
                          dummy_data_ranges["PhD_Conferred"][1],
                          dummy_data_ranges["PhD_Conferred"][2])
        research_output_score ==
            percentile_score(research_output_fwci, dd["Research_Output_FWCI"])
        lab_score == survey_adjust(lab_accessibility)
        funding_score ==
            min_max_scale(funding_opportunities,
                          dummy_data_ranges["Funding_Opportunities"][1],
                          dummy_data_ranges["Funding_Opportunities"][2])
        mentorship_score == survey_adjust(mentorship_programs)
    IN  [score |-> Sum(<<Mul(Q(20, 100), research_exp_score),
                         Mul(Q(15, 100), phd_score),
                         Mul(Q(25, 100), research_output_score),
                         Mul(Q(15, 100), lab_score),
                         Mul(Q(15, 100), funding_score),
                         Mul(Q(10, 100), mentorship_score)>>),
         subs |-> <<research_exp_score, phd_score, research_output_score,
                    lab_score, funding_score, mentorship_score>>]

\* Calls of the calculators on their own: the script's run has drawn
\* dummy_data, the widgets hold the arguments, and the call returns.
Call_calculate_qtf ==
    /\ calc = "none"
    /\ \E h \in Accepted("qtf_exp"), c \in Accepted("qtf_clarity"),
          a \in Accepted("qtf_app"),
          p \in UniformFor("Approachability_feedback_scores") :
           LET dd == DummyData([m \in {"Approachability_feedback_scores"} |-> p])
               r == calculate_qtf(h, c, a, dd)
           IN  /\ calc' = "calculate_qtf"
               /\ inputs' = <<h, c, a>>
               /\ dummy_data' = dd
               /\ score_raw' = r.score
               /\ sub_scores' = r.subs
    /\ UNCHANGED <<normVars, sidebarVars, aggVars>>

Call_calculate_tm ==
    /\ calc = "none"
    /\ \E l \in Accepted("tm_lec"), d \in Accepted("tm_disc"),
          p \in Accepted("tm_prac") :
           LET r == calculate_tm(l, d, p)
           IN  /\ calc' = "calculate_tm"
               /\ inputs' = <<l, d, p>>
               /\ dummy_data' = DummyData(<<>>)
               /\ score_raw' = r.score
               /\ sub_scores' = r.subs
    /\ UNCHANGED <<normVars, sidebarVars, aggVars>>

Call_calculate_ps ==
    /\ calc = "none"
    /\ \E pr \in Accepted("ps_place"), er \in Accepted("ps_emp"),
          ip \in Accepted("ps_ind"), al \in Accepted("ps_alumni"),
          es \in Accepted("ps_ent"),
          p1 \in UniformFor("Placement_Rate"),
          p2 \in UniformFor("Alumni_Salary") :
           LET dd == DummyData([m \in {"Placement_Rate", "Alumni_Salary"} |->
                                   IF m = "Placement_Rate" THEN p1 ELSE p2])
               r == calculate_ps(pr, er, ip, al, es, dd)
           IN  /\ calc' = "calculate_ps"
               /\ inputs' = <<pr, er, ip, al, es>>
               /\ dummy_data' = dd
               /\ score_raw' = r.score
               /\ sub_scores' = r.subs
    /\ UNCHANGED <<normVars, sidebarVars, aggVars>>

Call_calculate_cc ==
    /\ calc = "none"
    /\ \E ii \in Accepted("cc_inc"), rq \in Accepted("cc_rep"),
          se \in Accepted("cc_eng"), rr \in Accepted("cc_ret"),
          cu \in Accepted("cc_cult") :
           LET r == calculate_cc(ii, rq, se, rr, cu)
           IN  /\ calc' = "calculate_cc"
               /\ inputs' = <<ii, rq, se, rr, cu>>
               /\ dummy_data' = DummyData(<<>>)
               /\ score_raw' = r.score
               /\ sub_scores' = r.subs
    /\ UNCHANGED <<normVars, sidebarVars, aggVars>>

Call_calculate_ro ==
    /\ calc = "none"
    /\ \E re \in Accepted("ro_exp"), ph \in Accepted("ro_phd"),
          fw \in Accepted("ro_fwci"), la \in Accepted("ro_lab"),
          fo \in Accepted("ro_fund"), me \in Accepted("ro_ment"),
          p \in UniformFor("Research_Output_FWCI") :
           LET dd == DummyData([m \in {"Research_Output_FWCI"} |-> p])
               r == calculate_ro(re, ph, fw, la, fo, me, dd)
           IN  /\ calc' = "calculate_ro"
               /\ inputs' = <<re, ph, fw, la, fo, me>>
               /\ dummy_data' = dd
               /\ score_raw' = r.score
               /\ sub_scores' = r.subs
    /\ UNCHANGED <<normVars, sidebarVars, aggVars>>

NextFactors ==
    \/ Call_calculate_qtf
    \/ Call_calculate_tm
    \/ Call_calculate_ps
    \/ Call_calculate_cc
    \/ Call_calculate_ro

\* The five factor calculators, each called once on accepted inputs.
SpecFactors == Init /\ [][NextFactors]_vars

(***************************************************************************)
(* The button's handler after the calculators: peer adjustment and the     *)
(* non-linear aggregation.                                                 *)
(***************************************************************************)
\* The values of a factor -> score dict, in insertion order.
ValuesOf(d) == [i \in 1..Len(Factors) |-> d[Factors[i]]]

\* AdjustedScore with the percentile rank re-scaled twice: the division by 10
\* is left out, the multiplication by 10 kept.
AdjustedScore_rescaled(raw, population) ==
    LET temp_data_for_percentile == Append(population, raw)
        percentile_rank_factor == percentile_score(raw, temp_data_for_percentile)
    IN  Add(Mul(Q(7, 10), raw), Mul(Mul(Q(3, 10), percentile_rank_factor), Ten))

\* One iteration of the peer-adjustment loop.
AdjustedScore(raw, population) ==
    LET temp_data_for_percentile == Append(population, raw)
        percentile_rank_factor ==
            Div(percentile_score(raw, temp_data_for_percentile), Ten)
    IN  Add(Mul(Q(7, 10), raw), Mul(Mul(Q(3, 10), percentile_rank_factor), Ten))

\* BaseScore with the weights left out.
BaseScore_unweighted(weights, adjusted) ==
    Sum([i \in 1..Len(Factors) |-> adjusted[Factors[i]]])

BaseScore(weights, adjusted) ==
    Sum([i \in 1..Len(Factors) |->
            Mul(weights[Factors[i]], adjusted[Factors[i]])])

\* Index of the first largest element of a non-empty sequence.
FirstMax(s) ==
    CHOOSE i \in 1..Len(s) :
        /\ \A j \in 1..Len(s) : Le(s[j], s[i])
        /\ \A j \in 1..(i - 1) : Lt(s[j], s[i])

\* sorted(s, reverse=True)
RECURSIVE SortedReverse(_)
SortedReverse(s) ==
    IF s = <<>>
    THEN <<>>
    ELSE LET i == FirstMax(s)
         IN  <<s[i]>> \o SortedReverse(SubSeq(s, 1, i - 1) \o SubSeq(s, i + 1, Len(s)))

\* s[:n]
Prefix(s, n) == SubSeq(s, 1, IF Len(s) < n THEN Len(s) ELSE n)

\* np.mean
Mean(s) == Div(Sum(s), FromInt(Len(s)))

IsHigh(score) == Gt(score, FromInt(7))

IsFailing(score) == Lt(score, FromInt(3))

\* SynergyBonus averaging every high-scoring factor instead of the top 3.
SynergyBonus_all(adjusted) ==
    LET high_scoring_factors == SelectSeq(ValuesOf(adjusted), IsHigh)
    IN  IF Len(high_scoring_factors) >= 3
        THEN LET avg_top_3 == Mean(SortedReverse(high_scoring_factors))
                 bonus == Mul(Q(1, 2), Sub(avg_top_3, FromInt(7)))
             IN  IF Lt(bonus, Zero) THEN Zero ELSE bonus
        ELSE Zero

SynergyBonus(adjusted) ==
    LET high_scoring_factors == SelectSeq(ValuesOf(adjusted), IsHigh)
    IN  IF Len(high_scoring_factors) >= 3
        THEN LET avg_top_3 == Mean(Prefix(SortedReverse(high_scoring_factors), 3))
                 bonus == Mul(Q(1, 2), Sub(avg_top_3, FromInt(7)))
             IN  IF Lt(bonus, Zero) THEN Zero ELSE bonus
        ELSE Zero

\* Penalty charged once if any factor fails, instead of once per failing factor.
Penalty_flat(adjusted) ==
    LET failing_factors_count == Len(SelectSeq(ValuesOf(adjusted), IsFailing))
    IN  IF failing_factors_count > 0 THEN Q(2, 10) ELSE Zero

\* Penalty with the comparison turned round: charged for factors above 3.
Penalty_above3(adjusted) ==
    LET failing_factors_count ==
            Len(SelectSeq(ValuesOf(adjusted), LAMBDA sc : Gt(sc, FromInt(3))))
    IN  Mul(Q(2, 10), FromInt(failing_factors_count))

Penalty(adjusted) ==
    LET failing_factors_count == Len(SelectSeq(ValuesOf(adjusted), IsFailing))
    IN  Mul(Q(2, 10), FromInt(failing_factors_count))

\* FinalScore0to10 without the clamp.
FinalScore0to10_unclamped(base, bonus, pen) == Sub(Add(base, bonus), pen)

FinalScore0to10(base, bonus, pen) ==
    Max(Zero, Min(Ten, Sub(Add(base, bonus), pen)))

FinalScore1000(final) == Mul(Div(final, Ten), FromInt(MAX_SCORE))

\* Raw factor scores handed to the aggregation: the scale's lower end, a low
\* score, a high score, and one above the scale (calculate_ps and
\* calculate_ro can return more than 10).
RawGrid == {FromInt(0), FromInt(3), FromInt(9), FromInt(13)}

\* The handler from its raw factor scores on: draws one population per
\* factor and computes every displayed result. A click reads the widgets and
\* nothing a previous click computed, so one click per run is modelled.
Aggregate ==
    /\ pc = "idle"
    /\ \E raw \in [FactorSet -> RawGrid],
          pops \in [FactorSet -> Uniform(FromInt(0), FromInt(10))] :
           /\ raw_factor_scores' = raw
           /\ dummy_overall_factor_scores' = pops
    /\ adjusted_factor_scores' =
           [f \in FactorSet |->
               AdjustedScore(raw_factor_scores'[f], dummy_overall_factor_scores'[f])]
    /\ base_score' = BaseScore(current_weights, adjusted_factor_scores')
    /\ synergy_bonus' = SynergyBonus(adjusted_factor_scores')
    /\ penalty' = Penalty(adjusted_factor_scores')
    /\ final_score_0_10' = FinalScore0to10(base_score', synergy_bonus', penalty')
    /\ final_score_1000' = FinalScore1000(final_score_0_10')
    /\ pc' = "done"
    /\ UNCHANGED <<normVars, sidebarVars, calcVars>>

\* Sidebar states the aggregation is run under: each scheme, and under
\* "Custom" these slider settings.
AggCustoms == {Row(40, 0, 0, 0, 0), Row(0, 0, 0, 0, 0)}

InitAgg ==
    /\ NormIdle /\ CalcIdle /\ AggIdle
    /\ \E s \in Schemes, c \in AggCustoms \cup {SliderDefaults} :
           /\ s = "Custom" <=> c \in AggCustoms
           /\ weight_scheme = s
           /\ custom = c
           /\ current_weights = CurrentWeights(s, c)
           /\ warning = Warned(s, c)

NextAgg == Aggregate

\* The aggregation, run once under each of these sidebar states.
SpecAgg == InitAgg /\ [][NextAgg]_vars

(***************************************************************************)
(* A second click on the button.                                           *)
(***************************************************************************)
\* The handler run again after one input changed so that one raw factor
\* score is higher, in the run where np.random.uniform returns the
\* populations it returned before. The weights are those of the first click.
Reaggregate ==
    /\ pc = "done"
    /\ \E f \in FactorSet, v \in RawGrid :
           /\ Lt(raw_factor_scores[f], v)
           /\ raw_factor_scores' = [raw_factor_scores EXCEPT ![f] = v]
    /\ dummy_overall_factor_scores' = dummy_overall_factor_scores
    /\ adjusted_factor_scores' =
           [f \in FactorSet |->
               AdjustedScore(raw_factor_scores'[f], dummy_overall_factor_scores'[f])]
    /\ base_score' = BaseScore(current_weights, adjusted_factor_scores')
    /\ synergy_bonus' = SynergyBonus(adjusted_factor_scores')
    /\ penalty' = Penalty(adjusted_factor_scores')
    /\ final_score_0_10' = FinalScore0to10(base_score', synergy_bonus', penalty')
    /\ final_score_1000' = FinalScore1000(final_score_0_10')
    /\ pc' = "redone"
    /\ UNCHANGED <<normVars, sidebarVars, calcVars>>

\* Sidebar states of the two-click runs: the Default preset, and sliders
\* that put the whole weight on one factor.
InitMono ==
    /\ NormIdle /\ CalcIdle /\ AggIdle
    /\ \E s \in {"Default", "Custom"} :
           LET c == IF s = "Custom" THEN Row(40, 0, 0, 0, 0) ELSE SliderDefaults
           IN  /\ weight_scheme = s
               /\ custom = c
               /\ current_weights = CurrentWeights(s, c)
               /\ warning = Warned(s, c)

NextMono == Aggregate \/ Reaggregate

\* Two clicks: the second with one raw factor score raised and the same
\* populations.
SpecMono == InitMono /\ [][NextMono]_vars

(***************************************************************************)
(* The whole pipeline: one run of the script with the button clicked.      *)
(***************************************************************************)
\* The widgets' values entered in the whole-pipeline runs, key -> value:
\* every widget at its min_value, where scores tie with populations drawn at
\* the lower end of their range.
PipelineInputs ==
    {[k \in DOMAIN number_input |-> number_input[k].min_value]}

\* dummy_data as one run of the script draws it.
DrawnDummyData ==
    {[m \in Metrics |->
         CASE m = "Approachability_feedback_scores" -> p1
           [] m = "Placement_Rate" -> p2
           [] m = "Alumni_Salary" -> p3
           [] m = "Research_Output_FWCI" -> p4] :
        p1 \in UniformFor("Approachability_feedback_scores"),
        p2 \in UniformFor("Placement_Rate"),
        p3 \in UniformFor("Alumni_Salary"),
        p4 \in UniformFor("Research_Output_FWCI")}

\* The handler's five calculator calls, by the factor each feeds.
CalculatorResult(f, in, dd) ==
    CASE f = "QTF" -> calculate_qtf(in.qtf_exp, in.qtf_clarity, in.qtf_app, dd)
      [] f = "TM" -> calculate_tm(in.tm_lec, in.tm_disc, in.tm_prac)
      [] f = "PS" -> calculate_ps(in.ps_place, in.ps_emp, in.ps_ind,
                                  in.ps_alumni, in.ps_ent, dd)
      [] f = "CC" -> calculate_cc(in.cc_inc, in.cc_rep, in.cc_eng, in.cc_ret,
                                  in.cc_cult)
      [] f = "RO" -> calculate_ro(in.ro_exp, in.ro_phd, in.ro_fwci, in.ro_lab,
                                  in.ro_fund, in.ro_ment, dd)

\* The handler that adds to the penalty of the previous run instead of
\* starting from the current run's failing factors alone.
Handler_carrying(in, dd, pops) ==
    /\ inputs' = in
    /\ dummy_data' = dd
    /\ dummy_overall_factor_scores' = pops
    /\ score_raw' =
           [f \in FactorSet |-> CalculatorResult(f, inputs', dummy_data')]
    /\ sub_scores' = [f \in FactorSet |-> score_raw'[f].subs]
    /\ raw_factor_scores' = [f \in FactorSet |-> score_raw'[f].score]
    /\ adjusted_factor_scores' =
           [f \in FactorSet |->
               AdjustedScore(raw_factor_scores'[f], dummy_overall_factor_scores'[f])]
    /\ base_score' = BaseScore(current_weights, adjusted_factor_scores')
    /\ synergy_bonus' = SynergyBonus(adjusted_factor_scores')
    /\ penalty' = Add(penalty, Penalty(adjusted_factor_scores'))
    /\ final_score_0_10' = FinalScore0to10(base_score', synergy_bonus', penalty')
    /\ final_score_1000' = FinalScore1000(final_score_0_10')

\* The script's run with the button clicked, the widgets holding `in`, the
\* run having drawn dd as dummy_data and the handler drawing pops: the five
\* calculators, then the peer adjustment and the aggregation. score_raw is
\* factor -> what its calculator returned, unpacked into sub_scores (factor
\* -> the sub-metric scores) and raw_factor_scores.
Handler(in, dd, pops) ==
    /\ inputs' = in
    /\ dummy_data' = dd
    /\ dummy_overall_factor_scores' = pops
    /\ score_raw' =
           [f \in FactorSet |-> CalculatorResult(f, inputs', dummy_data')]
    /\ sub_scores' = [f \in FactorSet |-> score_raw'[f].subs]
    /\ raw_factor_scores' = [f \in FactorSet |-> score_raw'[f].score]
    /\ adjusted_factor_scores' =
           [f \in FactorSet |->
               AdjustedScore(raw_factor_scores'[f], dummy_overall_factor_scores'[f])]
    /\ base_score' = BaseScore(current_weights, adjusted_factor_scores')
    /\ synergy_bonus' = SynergyBonus(adjusted_factor_scores')
    /\ penalty' = Penalty(adjusted_factor_scores')
    /\ final_score_0_10' = FinalScore0to10(base_score', synergy_bonus', penalty')
    /\ final_score_1000' = FinalScore1000(final_score_0_10')

\* The first click.
Click ==
    /\ pc = "idle"
    /\ \E in \in PipelineInputs, dd \in DrawnDummyData,
          pops \in [FactorSet -> Uniform(FromInt(0), FromInt(10))] :
           Handler(in, dd, pops)
    /\ pc' = "done"
    /\ UNCHANGED <<normVars, sidebarVars, calc>>

\* A second click with no widget touched: the script runs again, draws
\* dummy_data again, and the handler draws its populations again.
ClickAgain ==
    /\ pc = "done"
    /\ \E dd \in DrawnDummyData,
          pops \in [FactorSet -> Uniform(FromInt(0), FromInt(10))] :
           Handler(inputs, dd, pops)
    /\ pc' = "redone"
    /\ UNCHANGED <<normVars, sidebarVars, calc>>

NextPipeline == Click \/ ClickAgain

\* Two clicks with the same widget values under the Default weights.
SpecPipeline == Init /\ [][NextPipeline]_vars

(***************************************************************************)
(* The whole model: every operation above.                                 *)
(***************************************************************************)
Next == NextNorm \/ NextWeights \/ NextFactors \/ NextAgg \/ NextMono \/ NextPipeline

Spec == Init /\ [][Next]_vars

(***************************************************************************)
(* Properties.                                                             *)
(***************************************************************************)
\* The five weights of a weight set, summed in factor order.
WeightSum(w) == Sum([i \in 1..Len(Factors) |-> w[Factors[i]]])

NonNegativeSummingToOne(w) ==
    /\ \A f \in FactorSet : Le(Zero, w[f])
    /\ WeightSum(w) = One

HighFactors == {f \in FactorSet : Lt(FromInt(7), adjusted_factor_scores[f])}

FailingFactors == {f \in FactorSet : Lt(adjusted_factor_scores[f], FromInt(3))}

C2_PresetWeightsSumToOne ==
    weight_scheme \in {"Default", "Research-focused", "Teaching-focused"} =>
        /\ \A f \in FactorSet : Le(Zero, current_weights[f])
        /\ WeightSum(current_weights) = One

\* C3: for every five custom percentages in 0..100: if they total 100 the
\* weights are percentage/100 and no warning is shown; otherwise a warning is
\* shown and each weight is percentage/total; in every case the five weights
\* sum to 1.0 and keep the ratios of the percentages.
C3_CustomWeightsSumToOne ==
    weight_scheme = "Custom" =>
        LET total == total_custom_weight(custom)
        IN  /\ total = 100 =>
                /\ ~warning
                /\ \A f \in FactorSet :
                       current_weights[f] = Q(custom[f], 100)
            /\ total # 100 =>
                /\ warning
                /\ \A f \in FactorSet :
                       Mul(current_weights[f], FromInt(total)) = FromInt(custom[f])
            /\ \A f, g \in FactorSet :
                   Mul(current_weights[f], FromInt(custom[g]))
                       = Mul(current_weights[g], FromInt(custom[f]))
            /\ WeightSum(current_weights) = One

\* C4: for every combination of inputs the widgets accept, every sub-metric
\* score a factor calculator returns lies in [0,10].
C4_SubScoresInRange ==
    calc # "none" =>
        \A i \in 1..Len(sub_scores) :
            Le(Zero, sub_scores[i]) /\ Le(sub_scores[i], Ten)

\* C5: for each factor adjusted = 0.7*raw + 0.3*rank, where rank is
\* percentile_score(raw, P ++ [raw]) on the 0-10 scale, applied once; rank is
\* strictly between 0 and 10, so adjusted is strictly between 0.7*raw and
\* 0.7*raw + 3, and it is in [0,10] whenever raw is.
C5_PeerAdjustment ==
    pc = "done" =>
        \A f \in FactorSet :
            LET raw == raw_factor_scores[f]
                rank == percentile_score(raw, Append(dummy_overall_factor_scores[f], raw))
                adj == adjusted_factor_scores[f]
            IN  /\ adj = Add(Mul(Q(7, 10), raw), Mul(Q(3, 10), rank))
                /\ Lt(Zero, rank) /\ Lt(rank, Ten)
                /\ Lt(Mul(Q(7, 10), raw), adj)
                /\ Lt(adj, Add(Mul(Q(7, 10), raw), FromInt(3)))
                /\ (Le(Zero, raw) /\ Le(raw, Ten)) => (Le(Zero, adj) /\ Le(adj, Ten))

\* C5 witness: a factor whose raw score 3 lies below its whole population was
\* adjusted to 0.7*3 + 0.3*2.5 = 2.85.
C5_Witness ==
    /\ pc = "done"
    /\ \E f \in FactorSet :
           /\ raw_factor_scores[f] = FromInt(3)
           /\ \A i \in 1..Len(dummy_overall_factor_scores[f]) :
                  Lt(raw_factor_scores[f], dummy_overall_factor_scores[f][i])
           /\ adjusted_factor_scores[f] = Q(57, 20)

\* C6: for every weight set with non-negative weights summing to 1.0 the base
\* score lies between the smallest and the largest adjusted factor score,
\* hence in [0,10] whenever all adjusted scores are.
C6_BaseIsConvexCombination ==
    (pc = "done" /\ NonNegativeSummingToOne(current_weights)) =>
        /\ \E f \in FactorSet : Le(adjusted_factor_scores[f], base_score)
        /\ \E f \in FactorSet : Le(base_score, adjusted_factor_scores[f])
        /\ (\A f \in FactorSet :
                Le(Zero, adjusted_factor_scores[f]) /\ Le(adjusted_factor_scores[f], Ten))
               => (Le(Zero, base_score) /\ Le(base_score, Ten))

\* C6 witness: under the Default weights, with all adjusted scores in [0,10],
\* the base score is strictly between two adjusted scores.
C6_Witness ==
    /\ pc = "done"
    /\ weight_scheme = "Default"
    /\ \A f \in FactorSet :
           Le(Zero, adjusted_factor_scores[f]) /\ Le(adjusted_factor_scores[f], Ten)
    /\ \E f, g \in FactorSet :
           /\ Lt(adjusted_factor_scores[f], base_score)
           /\ Lt(base_score, adjusted_factor_scores[g])

\* C7: the synergy bonus is 0 whenever fewer than 3 adjusted scores exceed 7;
\* with at least 3 above 7 it is 0.5 * (mean of the 3 largest adjusted
\* scores - 7); it is non-negative, and at most 1.5 when every adjusted score
\* is at most 10.
C7_SynergyBonus ==
    pc = "done" =>
        /\ Cardinality(HighFactors) < 3 => synergy_bonus = Zero
        /\ Cardinality(HighFactors) >= 3 =>
               \E a, b, c \in FactorSet :
                   /\ a # b /\ a # c /\ b # c
                   /\ \A t \in {a, b, c}, g \in FactorSet \ {a, b, c} :
                          Le(adjusted_factor_scores[g], adjusted_factor_scores[t])
                   /\ synergy_bonus =
                          Mul(Q(1, 2),
                              Sub(Div(Add(Add(adjusted_factor_scores[a],
                                              adjusted_factor_scores[b]),
                                          adjusted_factor_scores[c]),
                                      FromInt(3)),
                                  FromInt(7)))
        /\ Le(Zero, synergy_bonus)
        /\ (\A f \in FactorSet : Le(adjusted_factor_scores[f], Ten))
               => Le(synergy_bonus, Q(3, 2))

\* C7 witness: four adjusted scores exceed 7, not all equal, and the bonus is
\* positive.
C7_Witness ==
    /\ pc = "done"
    /\ Cardinality(HighFactors) = 4
    /\ \E f, g \in HighFactors : adjusted_factor_scores[f] # adjusted_factor_scores[g]
    /\ Lt(Zero, synergy_bonus)

\* C8: the penalty is 0.2 * (number of adjusted factor scores strictly below
\* 3), counted on the peer-adjusted scores; it is one of 0, 0.2, ..., 1.0 and
\* never negative.
C8_Penalty ==
    pc = "done" =>
        /\ penalty = Mul(Q(2, 10), FromInt(Cardinality(FailingFactors)))
        /\ penalty \in {Q(2 * k, 10) : k \in 0..5}
        /\ Le(Zero, penalty)

\* C8 witness: two factors fail on their adjusted scores, one of them with a
\* raw score that is not below 3, and the penalty is 0.4.
C8_Witness ==
    /\ pc = "done"
    /\ Cardinality(FailingFactors) = 2
    /\ \E f \in FailingFactors : Le(FromInt(3), raw_factor_scores[f])
    /\ penalty = Q(4, 10)

\* C9: percentile_score(value, S) is 10 * (#{x in S : x < value} +
\* 0.5 * #{x in S : x = value}) / |S|; for non-empty S it is 0 when value is
\* below every element, 10 when above every element, 5 when equal to every
\* element; for empty S it is 0.
C9_PercentileMidRank ==
    fn = "percentile_score" =>
        LET value == args[1]
            S == args[2]
            n == Len(S)
            less == Cardinality({i \in 1..n : S[i][1] * value[2] < value[1] * S[i][2]})
            equal == Cardinality({i \in 1..n : S[i][1] * value[2] = value[1] * S[i][2]})
        IN  /\ n = 0 => ret = Zero
            /\ n > 0 =>
                /\ ret = Q(10 * (2 * less + equal), 2 * n)
                /\ (\A i \in 1..n : Lt(value, S[i])) => ret = Zero
                /\ (\A i \in 1..n : Lt(S[i], value)) => ret = Ten
                /\ (\A i \in 1..n : S[i] = value) => ret = FromInt(5)

\* C9 witness: a series holding an element below, one equal to and one above
\* the value was ranked (mid-rank 5).
C9_Witness ==
    /\ fn = "percentile_score"
    /\ Len(args[2]) = 3
    /\ Lt(args[2][1], args[1])
    /\ args[2][2] = args[1]
    /\ Lt(args[1], args[2][3])
    /\ ret = FromInt(5)

C11_SurveyAdjustLinear ==
    fn = "survey_adjust" =>
        LET rating == args[1]
        IN  /\ Mul(FromInt(2), ret) = Sub(Mul(FromInt(5), rating), FromInt(5))
            /\ rating = FromInt(1) => ret = Zero
            /\ rating = FromInt(3) => ret = FromInt(5)
            /\ rating = FromInt(5) => ret = Ten
            /\ (Le(Zero, ret) /\ Le(ret, Ten))
                   <=> (Le(One, rating) /\ Le(rating, FromInt(5)))

\* C11 witness: a rating above 5 whose result is above 10.
C11_Witness ==
    /\ fn = "survey_adjust"
    /\ Lt(FromInt(5), args[1])
    /\ Lt(Ten, ret)

\* The fixed local weights of each factor calculator, in percent, in the
\* order of the sub-metric scores it returns.
LocalWeightsPct ==
    [calculate_qtf |-> <<40, 30, 30>>,
     calculate_tm |-> <<30, 40, 30>>,
     calculate_ps |-> <<30, 20, 20, 15, 15>>,
     calculate_cc |-> <<30, 20, 20, 15, 15>>,
     calculate_ro |-> <<20, 15, 25, 15, 15, 10>>]

SubScoresIn0to10 ==
    \A i \in 1..Len(sub_scores) : Le(Zero, sub_scores[i]) /\ Le(sub_scores[i], Ten)

RaisedOneRawScore ==
    /\ pc = "done" /\ pc' = "redone"
    /\ dummy_overall_factor_scores' = dummy_overall_factor_scores
    /\ current_weights' = current_weights
    /\ \A f \in FactorSet : Le(Zero, current_weights[f])
    /\ \E f \in FactorSet :
           /\ Lt(raw_factor_scores[f], raw_factor_scores'[f])
           /\ \A g \in FactorSet \ {f} :
                  raw_factor_scores'[g] = raw_factor_scores[g]

\* C13: with the populations and the non-negative weights held fixed,
\* raising one raw factor score and leaving the other four unchanged never
\* lowers the final 0-10 score: no adjusted score and not the base score
\* decreases, the synergy bonus does not decrease, and the penalty does not
\* increase.
C13_RaisingRawNeverLowersFinal ==
    [][RaisedOneRawScore =>
          /\ \A f \in FactorSet :
                 Le(adjusted_factor_scores[f], adjusted_factor_scores'[f])
          /\ Le(base_score, base_score')
          /\ Le(synergy_bonus, synergy_bonus')
          /\ Le(penalty', penalty)
          /\ Le(final_score_0_10, final_score_0_10')]_vars

\* C13 witness: a second run, after one raw factor score was raised, in
\* which exactly three factors are above 7 and earn a bonus, one factor is
\* still below 3 and penalised, and the final score is strictly inside
\* (0,10), so no clamp hides a change.
C13_Witness ==
    /\ pc = "redone"
    /\ Cardinality(HighFactors) = 3
    /\ Lt(Zero, synergy_bonus)
    /\ Lt(Zero, penalty)
    /\ Lt(Zero, final_score_0_10) /\ Lt(final_score_0_10, Ten)

\* Everything a run of the handler computes and displays.
Outputs ==
    <<sub_scores, raw_factor_scores, adjusted_factor_scores, base_score,
      synergy_bonus, penalty, final_score_0_10, final_score_1000>>

\* A step from one run of the handler to the next with identical raw inputs
\* and identical weights.
SameInputsAgain ==
    /\ pc = "done" /\ pc' = "redone"
    /\ inputs' = inputs
    /\ current_weights' = current_weights

SamePopulations ==
    /\ dummy_data' = dummy_data
    /\ dummy_overall_factor_scores' = dummy_overall_factor_scores

====
